---- MODULE Spec2Model ----
(***************************************************************************)
(* Model of the event-sourcing core of zitadel:                            *)
(*   - eventstore.SearchQueryBuilder and its in-memory matching engine     *)
(*     (Matches / matchCommand / SearchQuery.matches),                     *)
(*   - the append-and-reduce helpers of package command                    *)
(*     (pushAppendAndReduce, AppendAndReduce, queryAndReduce, exists),     *)
(*   - the projection updater OrgMemberView.AppendEvent.                   *)
(* Four groups of variables; each specification moves one group.           *)
(***************************************************************************)
EXTENDS Integers, Sequences, FiniteSets, TLC

VARIABLES
    \* matching engine
    builder,      \* the SearchQueryBuilder under test
    commands,     \* the commands handed to Matches / matchCommand
    result,       \* the slice returned by Matches
    matched,      \* <<>> before matchCommand ran, <<b>> after it returned b
    mpc,          \* "ready" before the call, "done" after it
    \* append-and-reduce protocol
    store,        \* persisted events of the aggregate, in sequence order
    ops,          \* per operation: its write model and its position
    \* projection updater
    view,         \* the OrgMemberView record
    viewPre,      \* the record as it was before the last AppendEvent
    lastEvent,    \* <<>> or <<e>>: the event of the last AppendEvent
    lastErr,      \* error returned by the last AppendEvent
    \* builder construction
    builders,     \* the SearchQueryBuilders allocated, by address
    lastCall      \* the last builder method called, and the builder before it

matchVars == <<builder, commands, result, matched, mpc>>
wmVars    == <<store, ops>>
viewVars  == <<view, viewPre, lastEvent, lastErr>>
buildVars == <<builders, lastCall>>
vars      == <<builder, commands, result, matched, mpc, store, ops,
               view, viewPre, lastEvent, lastErr, builders, lastCall>>

----------------------------------------------------------------------------
(* Generic helpers *)

Range(s) == {s[i] : i \in DOMAIN s}

\* a Go pointer to a string: <<>> is nil, <<s>> points to s
NilPtr == <<>>
PtrTo(s) == <<s>>

\* error values: nil is Go's nil error; every other error has a kind, the
\* id it was thrown with and the kind of the error it wraps
nil == [kind |-> "nil", id |-> "", parent |-> ""]

Err(kind) == [kind |-> kind, id |-> "", parent |-> ""]

\* caos_errs.ThrowInternal(parent, id, message)
ThrowInternal(parent, id) == [kind |-> "Internal", id |-> id, parent |-> parent.kind]

\* conversion of a non-negative int to uint16, as in uint16(i)
U16(i) == i % 65536

----------------------------------------------------------------------------
(* eventstore.SearchQueryBuilder *)

\* Columns constants
ColumnsEvent == 1
ColumnsMaxSequence == 2
ColumnsInstanceIDs == 3
columnsCount == 4

\* the zero time.Time
ZeroTime == 0

NewSearchQueryBuilder(columns) ==
    [ columns               |-> columns,
      limit                 |-> 0,
      offset                |-> 0,
      desc                  |-> FALSE,
      resourceOwner         |-> "",
      instanceID            |-> NilPtr,
      editorUser            |-> "",
      queries               |-> <<>>,
      allowTimeTravel       |-> FALSE,
      positionAfter         |-> 0,
      awaitOpenTransactions |-> FALSE,
      creationDateAfter     |-> ZeroTime,
      creationDateBefore    |-> ZeroTime,
      eventSequenceGreater  |-> 0 ]

\* a SearchQuery as AddQuery creates it: every filter empty
NewSearchQuery ==
    [ aggregateTypes |-> <<>>,
      aggregateIDs   |-> <<>>,
      eventTypes     |-> <<>>,
      eventData      |-> <<>> ]

\* membership helpers of package eventstore (aggregate.go / event.go)
isAggregateTypes(aggregate, types) == aggregate.Type \in Range(types)

isAggregateIDs(aggregate, ids) == aggregate.ID \in Range(ids)

isEventTypes(command, types) == command.Type \in Range(types)

\* SearchQuery.matches: eventData plays no part.  Faulty variants first: a
\* sub-query with event data set accepts no command; the filters of one
\* sub-query are OR-connected.
matches_EventDataFilters(query, command) ==
    IF DOMAIN query.eventData # {}
    THEN FALSE
    ELSE IF Len(query.aggregateTypes) > 0 /\ ~isAggregateTypes(command.Aggregate, query.aggregateTypes)
    THEN FALSE
    ELSE IF Len(query.aggregateIDs) > 0 /\ ~isAggregateIDs(command.Aggregate, query.aggregateIDs)
    THEN FALSE
    ELSE IF Len(query.eventTypes) > 0 /\ ~isEventTypes(command, query.eventTypes)
    THEN FALSE
    ELSE TRUE

matches_OrFields(query, command) ==
    \/ Len(query.aggregateTypes) > 0 /\ isAggregateTypes(command.Aggregate, query.aggregateTypes)
    \/ Len(query.aggregateIDs) > 0 /\ isAggregateIDs(command.Aggregate, query.aggregateIDs)
    \/ Len(query.eventTypes) > 0 /\ isEventTypes(command, query.eventTypes)
    \/ Len(query.aggregateTypes) + Len(query.aggregateIDs) + Len(query.eventTypes) = 0

matches(query, command) ==
    IF Len(query.aggregateTypes) > 0 /\ ~isAggregateTypes(command.Aggregate, query.aggregateTypes)
    THEN FALSE
    ELSE IF Len(query.aggregateIDs) > 0 /\ ~isAggregateIDs(command.Aggregate, query.aggregateIDs)
    THEN FALSE
    ELSE IF Len(query.eventTypes) > 0 /\ ~isEventTypes(command, query.eventTypes)
    THEN FALSE
    ELSE TRUE

\* Faulty variants of matchCommand: a tenant-less command is held to the
\* instance filter; a sequence equal to eventSequenceGreater passes; a builder
\* without sub-queries matches nothing.
matchCommand_NoTenantlessBypass(b, command) ==
    IF b.resourceOwner # "" /\ command.Aggregate.ResourceOwner # b.resourceOwner
    THEN FALSE
    ELSE IF /\ TRUE
            /\ b.instanceID # NilPtr
            /\ b.instanceID[1] # ""
            /\ command.Aggregate.InstanceID # b.instanceID[1]
    THEN FALSE
    ELSE IF /\ command.Seq # <<>>
            /\ b.eventSequenceGreater > 0
            /\ command.Seq[1] <= b.eventSequenceGreater
    THEN FALSE
    ELSE IF Len(b.queries) = 0
    THEN TRUE
    ELSE \E k \in 1..Len(b.queries) : matches(b.queries[k], command)

matchCommand_SequenceNotStrict(b, command) ==
    IF b.resourceOwner # "" /\ command.Aggregate.ResourceOwner # b.resourceOwner
    THEN FALSE
    ELSE IF /\ command.Aggregate.InstanceID # ""
            /\ b.instanceID # NilPtr
            /\ b.instanceID[1] # ""
            /\ command.Aggregate.InstanceID # b.instanceID[1]
    THEN FALSE
    ELSE IF /\ command.Seq # <<>>
            /\ b.eventSequenceGreater > 0
            /\ command.Seq[1] < b.eventSequenceGreater
    THEN FALSE
    ELSE IF Len(b.queries) = 0
    THEN TRUE
    ELSE \E k \in 1..Len(b.queries) : matches(b.queries[k], command)

matchCommand_EmptyQueriesReject(b, command) ==
    IF b.resourceOwner # "" /\ command.Aggregate.ResourceOwner # b.resourceOwner
    THEN FALSE
    ELSE IF /\ command.Aggregate.InstanceID # ""
            /\ b.instanceID # NilPtr
            /\ b.instanceID[1] # ""
            /\ command.Aggregate.InstanceID # b.instanceID[1]
    THEN FALSE
    ELSE IF /\ command.Seq # <<>>
            /\ b.eventSequenceGreater > 0
            /\ command.Seq[1] <= b.eventSequenceGreater
    THEN FALSE
    ELSE \E k \in 1..Len(b.queries) : matches(b.queries[k], command)

\* SearchQueryBuilder.matchCommand; command.Seq is <<>> for a command that
\* does not implement sequencer and <<n>> for one whose Sequence() is n
matchCommand(b, command) ==
    IF b.resourceOwner # "" /\ command.Aggregate.ResourceOwner # b.resourceOwner
    THEN FALSE
    ELSE IF /\ command.Aggregate.InstanceID # ""
            /\ b.instanceID # NilPtr
            /\ b.instanceID[1] # ""
            /\ command.Aggregate.InstanceID # b.instanceID[1]
    THEN FALSE
    ELSE IF /\ command.Seq # <<>>
            /\ b.eventSequenceGreater > 0
            /\ command.Seq[1] <= b.eventSequenceGreater
    THEN FALSE
    ELSE IF Len(b.queries) = 0
    THEN TRUE
    ELSE \E k \in 1..Len(b.queries) : matches(b.queries[k], command)

\* One iteration of the loop of SearchQueryBuilder.Matches.  i is the 1-based
\* position of the command looked at (Go's index is i-1); st.acc is the slice
\* `matches` and st.brk tells that the loop was left with break.
MatchesStep(b, cmds, i, st) ==
    IF b.limit > 0 /\ b.limit <= Len(st.acc) THEN [st EXCEPT !.brk = TRUE]
    ELSE IF b.offset > 0 /\ U16(i - 1) < b.offset THEN st
    ELSE IF matchCommand(b, cmds[i]) THEN [st EXCEPT !.acc = Append(@, cmds[i])]
    ELSE st

\* the iterations lo..hi of the loop, in order, from loop state st; the range
\* is halved so that the evaluation depth stays logarithmic in its length
RECURSIVE MatchesRange(_, _, _, _, _)
MatchesRange(b, cmds, lo, hi, st) ==
    IF st.brk \/ lo > hi THEN st
    ELSE IF lo = hi THEN MatchesStep(b, cmds, lo, st)
    ELSE LET mid == (lo + hi) \div 2
         IN MatchesRange(b, cmds, mid + 1, hi, MatchesRange(b, cmds, lo, mid, st))

Matches(b, cmds) == MatchesRange(b, cmds, 1, Len(cmds), [acc |-> <<>>, brk |-> FALSE]).acc

----------------------------------------------------------------------------
(* Inputs of the matching engine *)

MaxLimit == 2
MaxOffset == 2
MaxCommands == 3

Aggregate(t, id, ro, inst) ==
    [Type |-> t, ID |-> id, ResourceOwner |-> ro, InstanceID |-> inst]

Command(agg, et, seq) == [Aggregate |-> agg, Type |-> et, Seq |-> seq]

\* all sequences over S of length 0..n
RECURSIVE SeqsUpTo(_, _)
SeqsUpTo(S, n) ==
    IF n = 0 THEN {<<>>}
    ELSE LET shorter == SeqsUpTo(S, n - 1)
         IN shorter \cup {Append(s, x) : s \in {t \in shorter : Len(t) = n - 1}, x \in S}

\* the zero view, and the idle values of the three groups of variables
ZeroView ==
    [ UserID |-> "", OrgID |-> "", UserName |-> "", Email |-> "",
      FirstName |-> "", LastName |-> "", Roles |-> <<>>, Sequence |-> 0,
      CreationDate |-> ZeroTime, ChangeDate |-> ZeroTime ]

MatchIdle ==
    /\ builder = NewSearchQueryBuilder(ColumnsEvent)
    /\ commands = <<>>
    /\ result = <<>>
    /\ matched = <<>>
    /\ mpc = "ready"

ViewIdle ==
    /\ view = ZeroView
    /\ viewPre = ZeroView
    /\ lastEvent = <<>>
    /\ lastErr = nil

WMIdle ==
    /\ store = <<>>
    /\ ops = <<>>

\* a call record: the method, the address of the builder it was called on,
\* its argument, what it returned, the builders as they were before the call,
\* the number of AddQuery/Or calls made on each builder and the number of
\* calls so far
BuilderCall(fn, on, arg, ret, pre, added, n) ==
    [fn |-> fn, on |-> on, arg |-> arg, ret |-> ret, pre |-> pre, added |-> added, n |-> n]

BuildIdle ==
    /\ builders = <<>>
    /\ lastCall = BuilderCall("none", "", <<>>, <<>>, <<>>, <<>>, 0)

----------------------------------------------------------------------------
(* SpecMatches: Matches over lists of commands.  The builders carry a limit,
   an offset and a filter (a resource owner and at most one sub-query on the
   aggregate type); the commands differ in resource owner and type. *)

MatchesBuilders ==
    { [NewSearchQueryBuilder(ColumnsEvent) EXCEPT
          !.limit = l, !.offset = o, !.resourceOwner = ro, !.queries = qs]
      : l \in 0..MaxLimit, o \in 0..MaxOffset, ro \in {"", "ro1"},
        qs \in {<<>>, <<[NewSearchQuery EXCEPT !.aggregateTypes = <<"T1">>]>>} }

MatchesCommands ==
    { Command(Aggregate(t, "a1", ro, ""), "e1", <<>>)
      : t \in {"T1", "T2"}, ro \in {"ro1", "ro2"} }

InitMatches ==
    /\ builder \in MatchesBuilders
    /\ commands \in SeqsUpTo(MatchesCommands, MaxCommands)
    /\ result = <<>>
    /\ matched = <<>>
    /\ mpc = "ready"
    /\ WMIdle
    /\ ViewIdle
    /\ BuildIdle

\* result := builder.Matches(commands...)
CallMatches ==
    /\ mpc = "ready"
    /\ result' = Matches(builder, commands)
    /\ mpc' = "done"
    /\ UNCHANGED <<builder, commands, matched, store, ops, view, viewPre, lastEvent, lastErr, builders, lastCall>>

NextMatches == CallMatches

SpecMatches == InitMatches /\ [][NextMatches]_vars

\* the filtered order, the offset and the limit of section 4.2
FilteredOrder(b, cmds) == SelectSeq(cmds, LAMBDA c : matchCommand(b, c))

DropFirst(s, n) == SubSeq(s, n + 1, Len(s))

KeepAtMost(s, n) == IF n = 0 \/ Len(s) <= n THEN s ELSE SubSeq(s, 1, n)

\* C1: Matches returns the commands that satisfy the filter, in input order,
\* with the first `offset` matching commands dropped and at most `limit` of
\* the rest kept; a non-matching command before a matching one does not use
\* up the offset.
C1_OffsetOverFilteredOrder ==
    mpc = "done" =>
        result = KeepAtMost(DropFirst(FilteredOrder(builder, commands), builder.offset),
                            builder.limit)

----------------------------------------------------------------------------
(* SpecMatchesLong: Matches over lists longer than the range of the uint16
   offset.  The list handed to Matches is LongInput(commands): MaxUint16
   copies of PageCommand, which satisfies every filter of LongBuilders,
   followed by the commands of the state. *)

MaxUint16 == 65535
MaxBack == 1
MaxTail == 2

PageCommand == Command(Aggregate("T1", "a1", "ro1", ""), "e1", <<>>)

LongInput(tail) == [i \in 1..MaxUint16 |-> PageCommand] \o tail

LongBuilders ==
    { [NewSearchQueryBuilder(ColumnsEvent) EXCEPT
          !.limit = l, !.offset = o, !.resourceOwner = ro]
      : l \in 0..MaxLimit, o \in (MaxUint16 - MaxBack)..MaxUint16, ro \in {"", "ro1"} }

TailCommands ==
    { Command(Aggregate("T1", "a2", ro, ""), "e1", <<>>) : ro \in {"ro1", "ro2"} }

InitMatchesLong ==
    /\ builder \in LongBuilders
    /\ commands \in SeqsUpTo(TailCommands, MaxTail)
    /\ result = <<>>
    /\ matched = <<>>
    /\ mpc = "ready"
    /\ WMIdle
    /\ ViewIdle
    /\ BuildIdle

\* result := builder.Matches(page..., commands...)
CallMatchesLong ==
    /\ mpc = "ready"
    /\ result' = Matches(builder, LongInput(commands))
    /\ mpc' = "done"
    /\ UNCHANGED <<builder, commands, matched, store, ops, view, viewPre, lastEvent, lastErr, builders, lastCall>>

NextMatchesLong == CallMatchesLong

SpecMatchesLong == InitMatchesLong /\ [][NextMatchesLong]_vars

AllMatch(b, cmds) == \A i \in DOMAIN cmds : matchCommand(b, cmds[i])

\* positions o .. o+l-1 of the list (counted from 0), or all from o on when l = 0
Window(cmds, o, l) == KeepAtMost(DropFirst(cmds, o), l)

\* C15: when every command of the input satisfies the filter, Matches returns
\* exactly the commands at positions offset .. offset+limit-1 of the input, in
\* input order, and all commands from position offset on when the limit is 0.
C15_WindowWhenAllMatch ==
    (mpc = "done" /\ AllMatch(builder, LongInput(commands))) =>
        result = Window(LongInput(commands), builder.offset, builder.limit)

\* what Matches gives when the offset skips exactly the commands at the
\* indexes below it: the matching commands among the others, at most `limit`
SkipPrefixOnly(b, cmds) == KeepAtMost(FilteredOrder(b, DropFirst(cmds, b.offset)), b.limit)

\* C21: the offset skips only a prefix of the input, whatever its length: a
\* command at an index >= offset is never skipped because of the offset, also
\* at indexes past the range of the 16-bit offset type, so Matches returns the
\* matching commands among those at the indexes from offset on, cut at limit.
C21_OffsetSkipsOnlyPrefix ==
    mpc = "done" => result = SkipPrefixOnly(builder, LongInput(commands))

----------------------------------------------------------------------------
(* SpecMatchCommand: matchCommand on one command.  The builders carry the
   three top-level gates and up to MaxQueries sub-queries. *)

MaxQueries == 2
MaxSequence == 2

SubQueries ==
    { [NewSearchQuery EXCEPT !.aggregateTypes = ts, !.aggregateIDs = ids, !.eventTypes = ets]
      : ts \in {<<>>, <<"T1", "T2">>},
        ids \in {<<>>, <<"a1">>},
        ets \in {<<>>, <<"e1">>} }

MatchCommandBuilders ==
    { [NewSearchQueryBuilder(ColumnsEvent) EXCEPT
          !.resourceOwner = ro, !.instanceID = inst,
          !.eventSequenceGreater = sg, !.queries = qs]
      : ro \in {"", "ro1"},
        inst \in {NilPtr, PtrTo(""), PtrTo("tenant-x")},
        sg \in 0..(MaxSequence - 1),
        qs \in SeqsUpTo(SubQueries, MaxQueries) }

MatchCommandCommands ==
    { Command(Aggregate(t, id, ro, inst), et, seq)
      : t \in {"T1", "T2", "T3"}, id \in {"a1", "a2"}, et \in {"e1", "e2"},
        ro \in {"ro1", "ro2"}, inst \in {"", "tenant-x", "tenant-y"},
        seq \in {<<>>} \cup {<<n>> : n \in 1..MaxSequence} }

InitMatchCommand ==
    /\ builder \in MatchCommandBuilders
    /\ commands \in {<<c>> : c \in MatchCommandCommands}
    /\ result = <<>>
    /\ matched = <<>>
    /\ mpc = "ready"
    /\ WMIdle
    /\ ViewIdle
    /\ BuildIdle

\* matched := builder.matchCommand(command)
CallMatchCommand ==
    /\ mpc = "ready"
    /\ matched' = <<matchCommand(builder, commands[1])>>
    /\ mpc' = "done"
    /\ UNCHANGED <<builder, commands, result, store, ops, view, viewPre, lastEvent, lastErr, builders, lastCall>>

NextMatchCommand == CallMatchCommand

SpecMatchCommand == InitMatchCommand /\ [][NextMatchCommand]_vars

\* the three top-level gates as section 4.2 of the specification states them
ResourceOwnerGate(b, c) == b.resourceOwner = "" \/ c.Aggregate.ResourceOwner = b.resourceOwner

InstanceIDGate(b, c) ==
    ~ ( /\ b.instanceID # NilPtr
        /\ b.instanceID # PtrTo("")
        /\ c.Aggregate.InstanceID # ""
        /\ b.instanceID # PtrTo(c.Aggregate.InstanceID) )

SequenceGate(b, c) ==
    (c.Seq # <<>> /\ b.eventSequenceGreater > 0) => c.Seq[1] > b.eventSequenceGreater

TopLevelGates(b, c) == ResourceOwnerGate(b, c) /\ InstanceIDGate(b, c) /\ SequenceGate(b, c)

\* every non-empty filter of sub-query q contains the command's value
AllFiltersContain(q, c) ==
    /\ q.aggregateTypes # <<>> => (\E i \in DOMAIN q.aggregateTypes : q.aggregateTypes[i] = c.Aggregate.Type)
    /\ q.aggregateIDs # <<>> => (\E i \in DOMAIN q.aggregateIDs : q.aggregateIDs[i] = c.Aggregate.ID)
    /\ q.eventTypes # <<>> => (\E i \in DOMAIN q.eventTypes : q.eventTypes[i] = c.Type)

\* C2: with at least one sub-query, a command that passes the top-level
\* gates matches if and only if some sub-query has every non-empty filter
\* containing the command's value (sub-queries OR-connected, the filters of
\* one sub-query AND-connected).
C2_OrOfAnds ==
    (mpc = "done" /\ Len(builder.queries) >= 1 /\ TopLevelGates(builder, commands[1])) =>
        (matched[1] <=> \E k \in DOMAIN builder.queries :
                            AllFiltersContain(builder.queries[k], commands[1]))

\* a command matching only the second of two sub-queries, and only some of
\* the non-empty filters of the first, has been matched
C2_Witness ==
    /\ mpc = "done"
    /\ Len(builder.queries) = 2
    /\ TopLevelGates(builder, commands[1])
    /\ ~AllFiltersContain(builder.queries[1], commands[1])
    /\ builder.queries[1].aggregateTypes # <<>>
    /\ builder.queries[1].aggregateIDs # <<>>
    /\ isAggregateTypes(commands[1].Aggregate, builder.queries[1].aggregateTypes)
    /\ AllFiltersContain(builder.queries[2], commands[1])
    /\ builder.queries[2].eventTypes # <<>>
    /\ matched = <<TRUE>>

\* some sub-query accepts the command, or there is none
SubQueriesPass(b, c) ==
    Len(b.queries) = 0 \/ \E k \in DOMAIN b.queries : AllFiltersContain(b.queries[k], c)

\* the instance filter is set and non-empty, the command carries an instance
\* ID, and the two differ
InstanceRejects(b, c) ==
    /\ b.instanceID # NilPtr
    /\ b.instanceID[1] # ""
    /\ c.Aggregate.InstanceID # ""
    /\ c.Aggregate.InstanceID # b.instanceID[1]

\* C12: a command is rejected by the instanceID gate if and only if the
\* builder's instanceID is set and non-empty, the command's instance ID is
\* non-empty and the two differ: such a command never matches, and a command
\* that passes the other gates matches exactly when this is not the case.  A
\* command without instance ID bypasses InstanceID("tenant-x"), a command of
\* "tenant-y" does not match it.
C12_InstanceScoping ==
    mpc = "done" =>
        /\ InstanceRejects(builder, commands[1]) => matched = <<FALSE>>
        /\ ( /\ ResourceOwnerGate(builder, commands[1])
             /\ SequenceGate(builder, commands[1])
             /\ SubQueriesPass(builder, commands[1]) ) =>
               (matched[1] <=> ~InstanceRejects(builder, commands[1]))
        /\ ( /\ builder.instanceID = PtrTo("tenant-x")
             /\ commands[1].Aggregate.InstanceID = "tenant-y" ) => matched = <<FALSE>>

\* a command without instance ID has matched a builder with InstanceID("tenant-x")
C12_Witness ==
    /\ mpc = "done"
    /\ builder.instanceID = PtrTo("tenant-x")
    /\ commands[1].Aggregate.InstanceID = ""
    /\ matched = <<TRUE>>

\* C13: a command that exposes a sequence matches a builder with
\* eventSequenceGreater > 0 only if its sequence is strictly greater; a
\* command that exposes no sequence, and any command when
\* eventSequenceGreater = 0, is not rejected by this gate: it matches whenever
\* the other gates and the sub-queries pass.
C13_SequenceStrictlyGreater ==
    mpc = "done" =>
        /\ ( /\ commands[1].Seq # <<>>
             /\ builder.eventSequenceGreater > 0
             /\ matched = <<TRUE>> ) => commands[1].Seq[1] > builder.eventSequenceGreater
        /\ ( /\ commands[1].Seq = <<>> \/ builder.eventSequenceGreater = 0
             /\ ResourceOwnerGate(builder, commands[1])
             /\ InstanceIDGate(builder, commands[1])
             /\ SubQueriesPass(builder, commands[1]) ) => matched = <<TRUE>>

\* a command whose sequence equals eventSequenceGreater, and which passes
\* every other gate, was rejected
C13_Witness ==
    /\ mpc = "done"
    /\ builder.eventSequenceGreater > 0
    /\ commands[1].Seq = <<builder.eventSequenceGreater>>
    /\ ResourceOwnerGate(builder, commands[1])
    /\ InstanceIDGate(builder, commands[1])
    /\ SubQueriesPass(builder, commands[1])
    /\ matched = <<FALSE>>

\* C14: for a builder without sub-queries a command matches if and only if
\* the resourceOwner filter is empty or equals the command's resource owner,
\* the instanceID gate passes and the minimum-sequence gate passes, whatever
\* its aggregate type, aggregate ID and event type.
C14_TopLevelGatesOnly ==
    (mpc = "done" /\ Len(builder.queries) = 0) =>
        (matched[1] <=> TopLevelGates(builder, commands[1]))

\* a builder without sub-queries, with all three top-level filters set, has
\* matched a command
C14_Witness ==
    /\ mpc = "done"
    /\ Len(builder.queries) = 0
    /\ builder.resourceOwner # ""
    /\ builder.instanceID = PtrTo("tenant-x")
    /\ builder.eventSequenceGreater > 0
    /\ commands[1].Aggregate.Type = "T3"
    /\ commands[1].Aggregate.InstanceID = "tenant-x"
    /\ commands[1].Seq # <<>>
    /\ matched = <<TRUE>>

----------------------------------------------------------------------------
(* Projection updater: view.OrgMemberView *)

OrgMemberAdded == "org.member.added"
OrgMemberChanged == "org.member.changed"
KeyPairAdded == "key_pair.added"

\* One field of a JSON object as the decoder sees it: k = "absent" (no such
\* key), "value" (a value of the field's Go type, v), or "badtype" (a value
\* of another JSON type).
Absent == [k |-> "absent", v |-> <<>>]
Value(v) == [k |-> "value", v |-> v]
BadType == [k |-> "badtype", v |-> <<>>]

\* event.Data: form is "malformed" (not JSON, the empty payload included),
\* "null", "scalar" (JSON, but no object) or "object"; an object carries the
\* keys userId and roles that the struct tags of OrgMemberView bind, and
\* orgId, a key no field is bound to (OrgID is tagged json:"-")
Payload(form, userId, roles, orgId) ==
    [form |-> form, userId |-> userId, roles |-> roles, orgId |-> orgId]

\* json.Unmarshal(data, r): a syntax error is found before anything is
\* stored; a value of the wrong type is skipped, the rest of the object is
\* still decoded, and an UnmarshalTypeError is returned at the end
jsonUnmarshal(data, r) ==
    IF data.form = "malformed" THEN [r |-> r, err |-> Err("SyntaxError")]
    ELSE IF data.form = "null" THEN [r |-> r, err |-> nil]
    ELSE IF data.form = "scalar" THEN [r |-> r, err |-> Err("UnmarshalTypeError")]
    ELSE [ r |-> [r EXCEPT
                    !.UserID = IF data.userId.k = "value" THEN data.userId.v ELSE @,
                    !.Roles = IF data.roles.k = "value" THEN data.roles.v ELSE @],
           err |-> IF data.userId.k = "badtype" \/ data.roles.k = "badtype"
                   THEN Err("UnmarshalTypeError") ELSE nil ]

\* OrgMemberView.setRootData
setRootData(r, event) == [r EXCEPT !.OrgID = event.AggregateID]

\* OrgMemberView.SetData
SetData(r, event) ==
    LET dec == jsonUnmarshal(event.Data, r)
    IN IF dec.err # nil
       THEN [r |-> dec.r, err |-> ThrowInternal(dec.err, "MODEL-lub6s")]
       ELSE [r |-> dec.r, err |-> nil]

\* OrgMemberView.AppendEvent, faulty variants first:
\* the watermark is advanced only when the event was applied without error
AppendEvent_WatermarkOnSuccess(r, event) ==
    LET r1 == [r EXCEPT !.Sequence = event.Sequence, !.ChangeDate = event.CreationDate]
        res == IF event.Type = OrgMemberAdded
               THEN SetData([setRootData(r1, event) EXCEPT !.CreationDate = event.CreationDate], event)
               ELSE IF event.Type = OrgMemberChanged
               THEN SetData(r1, event)
               ELSE [r |-> r1, err |-> nil]
    IN IF res.err = nil THEN res
       ELSE [r |-> [res.r EXCEPT !.Sequence = r.Sequence, !.ChangeDate = r.ChangeDate],
             err |-> res.err]

\* the watermark is advanced only by the event types the view dispatches on
AppendEvent_WatermarkInDispatch(r, event) ==
    LET r1 == [r EXCEPT !.Sequence = event.Sequence, !.ChangeDate = event.CreationDate]
    IN IF event.Type = OrgMemberAdded
       THEN SetData([setRootData(r1, event) EXCEPT !.CreationDate = event.CreationDate], event)
       ELSE IF event.Type = OrgMemberChanged
       THEN SetData(r1, event)
       ELSE [r |-> r, err |-> nil]

\* identity and creation date are bound only after the payload was decoded
AppendEvent_BindAfterDecode(r, event) ==
    LET r1 == [r EXCEPT !.Sequence = event.Sequence, !.ChangeDate = event.CreationDate]
    IN IF event.Type = OrgMemberAdded
       THEN LET res == SetData(r1, event)
            IN IF res.err # nil THEN res
               ELSE [r |-> [setRootData(res.r, event) EXCEPT !.CreationDate = event.CreationDate],
                     err |-> nil]
       ELSE IF event.Type = OrgMemberChanged
       THEN SetData(r1, event)
       ELSE [r |-> r1, err |-> nil]

\* a changed event rebinds the identity as an added event does, and every
\* other event type is decoded as well
AppendEvent_NoDispatch(r, event) ==
    LET r1 == [r EXCEPT !.Sequence = event.Sequence, !.ChangeDate = event.CreationDate]
    IN SetData([setRootData(r1, event) EXCEPT !.CreationDate = event.CreationDate], event)

AppendEvent(r, event) ==
    LET r1 == [r EXCEPT !.Sequence = event.Sequence, !.ChangeDate = event.CreationDate]
    IN IF event.Type = OrgMemberAdded
       THEN SetData([setRootData(r1, event) EXCEPT !.CreationDate = event.CreationDate], event)
       ELSE IF event.Type = OrgMemberChanged
       THEN SetData(r1, event)
       ELSE [r |-> r1, err |-> nil]

----------------------------------------------------------------------------
(* SpecView: one view record fed with events *)

MaxEventSequence == 2
MaxDate == 2

EventDates == {MaxEventSequence + d : d \in 1..MaxDate}

Payloads ==
    {Payload("malformed", Absent, Absent, Absent),
     Payload("null", Absent, Absent, Absent),
     Payload("scalar", Absent, Absent, Absent)}
    \cup { Payload("object", u, rs, Absent)
           : u \in {Absent, Value("user-1"), BadType},
             rs \in {Absent, Value(<<"ORG_OWNER">>), BadType} }
    \cup {Payload("object", Value("user-1"), Absent, Value("org-9"))}

Events ==
    { [Sequence |-> s, CreationDate |-> d, Type |-> t, AggregateID |-> a, Data |-> p]
      : s \in 1..MaxEventSequence, d \in EventDates,
        t \in {OrgMemberAdded, OrgMemberChanged, KeyPairAdded},
        a \in {"org-1"}, p \in Payloads }

\* a record as it is loaded from the view table
StoredView ==
    [ UserID |-> "user-0", OrgID |-> "org-0", UserName |-> "alice",
      Email |-> "alice@example.com", FirstName |-> "Alice", LastName |-> "A",
      Roles |-> <<"ORG_VIEWER">>, Sequence |-> 1,
      CreationDate |-> MaxEventSequence + 1, ChangeDate |-> MaxEventSequence + 1 ]

InitView ==
    /\ view \in {ZeroView, StoredView}
    /\ viewPre = view
    /\ lastEvent = <<>>
    /\ lastErr = nil
    /\ MatchIdle
    /\ WMIdle
    /\ BuildIdle

\* err := view.AppendEvent(event)
CallAppendEvent(event) ==
    LET res == AppendEvent(view, event)
    IN /\ view' = res.r
       /\ viewPre' = view
       /\ lastEvent' = <<event>>
       /\ lastErr' = res.err
       /\ UNCHANGED <<builder, commands, result, matched, mpc, store, ops, builders, lastCall>>

NextView == \E event \in Events : CallAppendEvent(event)

SpecView == InitView /\ [][NextView]_vars

\* the payload cannot be decoded into an OrgMemberView
Undecodable(data) ==
    \/ data.form \in {"malformed", "scalar"}
    \/ data.form = "object" /\ (data.userId.k = "badtype" \/ data.roles.k = "badtype")

WatermarkIs(event) == view.Sequence = event.Sequence /\ view.ChangeDate = event.CreationDate

SameProfile == /\ view.UserName = viewPre.UserName
               /\ view.Email = viewPre.Email
               /\ view.FirstName = viewPre.FirstName
               /\ view.LastName = viewPre.LastName

SameBusinessFields == /\ SameProfile
                      /\ view.UserID = viewPre.UserID
                      /\ view.OrgID = viewPre.OrgID
                      /\ view.Roles = viewPre.Roles
                      /\ view.CreationDate = viewPre.CreationDate

C8_WatermarkUnconditional ==
    lastEvent # <<>> => WatermarkIs(lastEvent[1])

\* a second call, with an event the view does not dispatch on, moved the
\* watermark of a view an added event had bound before
C8_Witness ==
    /\ lastEvent # <<>>
    /\ lastEvent[1].Type = KeyPairAdded
    /\ viewPre.OrgID = lastEvent[1].AggregateID
    /\ viewPre.Sequence # lastEvent[1].Sequence
    /\ viewPre.ChangeDate # lastEvent[1].CreationDate
    /\ view.Sequence = lastEvent[1].Sequence

\* C9: after AppendEvent with an OrgMemberAdded event, OrgID is the event's
\* aggregate ID and CreationDate its creation date; the two are assigned
\* before the payload is decoded, so they hold when decoding fails, and the
\* payload cannot override them.
C9_AddedBindsIdentity ==
    (lastEvent # <<>> /\ lastEvent[1].Type = OrgMemberAdded) =>
        /\ view.OrgID = lastEvent[1].AggregateID
        /\ view.CreationDate = lastEvent[1].CreationDate

\* an added event whose payload failed to decode bound a fresh identity
C9_Witness ==
    /\ lastEvent # <<>>
    /\ lastEvent[1].Type = OrgMemberAdded
    /\ lastErr # nil
    /\ viewPre.OrgID # lastEvent[1].AggregateID
    /\ viewPre.CreationDate # lastEvent[1].CreationDate
    /\ view.OrgID = lastEvent[1].AggregateID

\* C10: an OrgMemberChanged event leaves OrgID and CreationDate unchanged;
\* an event of any other type than OrgMemberAdded and OrgMemberChanged leaves
\* every field except Sequence and ChangeDate unchanged and returns no error.
C10_OnlyAddedBindsIdentity ==
    /\ (lastEvent # <<>> /\ lastEvent[1].Type = OrgMemberChanged) =>
           view.OrgID = viewPre.OrgID /\ view.CreationDate = viewPre.CreationDate
    /\ (lastEvent # <<>> /\ lastEvent[1].Type \notin {OrgMemberAdded, OrgMemberChanged}) =>
           SameBusinessFields /\ lastErr = nil

\* a changed event decoded a new user into a view whose organisation and
\* creation date differ from the event's envelope
C10_Witness ==
    /\ lastEvent # <<>>
    /\ lastEvent[1].Type = OrgMemberChanged
    /\ lastErr = nil
    /\ view.UserID # viewPre.UserID
    /\ viewPre.OrgID \notin {"", lastEvent[1].AggregateID}
    /\ viewPre.CreationDate \notin {ZeroTime, lastEvent[1].CreationDate}

----------------------------------------------------------------------------
(* Append-and-reduce protocol of package command *)

OrgMemberRemoved == "org.member.removed"

\* a write model: the events appended and not yet reduced, the sequence of
\* the last event reduced and the interpreted state
NewWriteModel == [Events |-> <<>>, ProcessedSequence |-> 0, State |-> "absent"]

\* one entry of the call log of an operation
Call(fn, arg) == [fn |-> fn, arg |-> arg]

\* the interpreted state after one more event
ApplyEvent(state, event) ==
    IF event.Type = OrgMemberAdded THEN "active"
    ELSE IF event.Type = OrgMemberRemoved THEN "removed"
    ELSE state

RECURSIVE FoldEvents(_, _)
FoldEvents(state, events) ==
    IF events = <<>> THEN state
    ELSE FoldEvents(ApplyEvent(state, Head(events)), Tail(events))

\* AppendReducer.AppendEvents
AppendEvents(object, events) == [object EXCEPT !.Events = @ \o events]

\* AppendReducer.Reduce: folds the appended events into the state and moves
\* the sequence to the last of them
Reduce(object) ==
    IF object.Events = <<>> THEN object
    ELSE [ Events |-> <<>>,
           ProcessedSequence |-> object.Events[Len(object.Events)].Sequence,
           State |-> FoldEvents(object.State, object.Events) ]

\* existsWriteModel.Exists
Exists(object) == object.State = "active"

\* Eventstore.Push: the context is cancelled (fail # nil), or the stream of
\* the aggregate has advanced past the sequence a command exposes, or every
\* command is persisted with the next sequence.  Returns the events, the
\* error and the new stream.
Push(stream, cmds, fail) ==
    IF fail # nil THEN [events |-> <<>>, err |-> fail, stream |-> stream]
    ELSE IF \E i \in DOMAIN cmds : cmds[i].Seq # <<>> /\ Len(stream) > cmds[i].Seq[1]
    THEN [events |-> <<>>, err |-> Err("Conflict"), stream |-> stream]
    ELSE LET events == [i \in 1..Len(cmds) |->
                           [ Sequence |-> Len(stream) + i, Type |-> cmds[i].Type,
                             AggregateID |-> cmds[i].Aggregate.ID ]]
         IN [events |-> events, err |-> nil, stream |-> stream \o events]

\* the filter collaborator on the model's own query: every persisted event of
\* the aggregate, or an error
Filter(stream, fail) ==
    IF fail # nil THEN [events |-> <<>>, err |-> fail]
    ELSE [events |-> stream, err |-> nil]

\* AppendAndReduce; rerr is what object.Reduce() returns.  Faulty variant first:
\* Reduce runs before the events are appended.
AppendAndReduce_ReduceFirst(object, events, rerr) ==
    [ object |-> AppendEvents(Reduce(object), events),
      calls  |-> <<Call("Reduce", <<>>), Call("AppendEvents", events)>>,
      err    |-> rerr ]

AppendAndReduce(object, events, rerr) ==
    [ object |-> Reduce(AppendEvents(object, events)),
      calls  |-> <<Call("AppendEvents", events), Call("Reduce", <<>>)>>,
      err    |-> rerr ]

\* pushAppendAndReduce; pushed is what c.eventstore.Push returned.  Faulty
\* variant first: the error of the push is dropped and the events are folded anyway.
pushAppendAndReduce_IgnoreError(object, cmds, pushed, rerr) ==
    LET res == AppendAndReduce(object, pushed.events, rerr)
    IN [res EXCEPT !.calls = <<Call("Push", cmds)>> \o @]

pushAppendAndReduce(object, cmds, pushed, rerr) ==
    IF pushed.err # nil
    THEN [object |-> object, calls |-> <<Call("Push", cmds)>>, err |-> pushed.err]
    ELSE LET res == AppendAndReduce(object, pushed.events, rerr)
         IN [res EXCEPT !.calls = <<Call("Push", cmds)>> \o @]

\* queryAndReduce; filtered is what filter(ctx, wm.Query()) returned.  Faulty
\* variants first: the events are appended and never reduced; no check for an
\* empty result.
queryAndReduce_NoReduce(wm, filtered, rerr) ==
    IF filtered.err # nil
    THEN [object |-> wm, calls |-> <<Call("filter", <<>>)>>, err |-> filtered.err]
    ELSE IF Len(filtered.events) = 0
    THEN [object |-> wm, calls |-> <<Call("filter", <<>>)>>, err |-> nil]
    ELSE [ object |-> AppendEvents(wm, filtered.events),
           calls  |-> <<Call("filter", <<>>), Call("AppendEvents", filtered.events)>>,
           err    |-> nil ]

queryAndReduce_NoEmptyCheck(wm, filtered, rerr) ==
    IF filtered.err # nil
    THEN [object |-> wm, calls |-> <<Call("filter", <<>>)>>, err |-> filtered.err]
    ELSE LET res == [ object |-> Reduce(AppendEvents(wm, filtered.events)),
                      calls  |-> <<Call("AppendEvents", filtered.events), Call("Reduce", <<>>)>>,
                      err    |-> rerr ]
         IN [res EXCEPT !.calls = <<Call("filter", <<>>)>> \o @]

queryAndReduce(wm, filtered, rerr) ==
    IF filtered.err # nil
    THEN [object |-> wm, calls |-> <<Call("filter", <<>>)>>, err |-> filtered.err]
    ELSE IF Len(filtered.events) = 0
    THEN [object |-> wm, calls |-> <<Call("filter", <<>>)>>, err |-> nil]
    ELSE LET res == [ object |-> Reduce(AppendEvents(wm, filtered.events)),
                      calls  |-> <<Call("AppendEvents", filtered.events), Call("Reduce", <<>>)>>,
                      err    |-> rerr ]
         IN [res EXCEPT !.calls = <<Call("filter", <<>>)>> \o @]

\* exists.  Faulty variants first: Exists is evaluated before the replay;
\* the error of the replay is wrapped.
exists_ExistsBeforeReplay(wm, filtered, rerr) ==
    LET res == queryAndReduce(wm, filtered, rerr)
    IN IF res.err # nil
       THEN [object |-> res.object, calls |-> res.calls, ok |-> FALSE, err |-> res.err]
       ELSE [object |-> res.object, calls |-> res.calls, ok |-> Exists(wm), err |-> nil]

exists_WrapError(wm, filtered, rerr) ==
    LET res == queryAndReduce(wm, filtered, rerr)
    IN IF res.err # nil
       THEN [object |-> res.object, calls |-> res.calls, ok |-> FALSE,
             err |-> ThrowInternal(res.err, "COMMAND-exists")]
       ELSE [object |-> res.object, calls |-> res.calls, ok |-> Exists(res.object), err |-> nil]

exists(wm, filtered, rerr) ==
    LET res == queryAndReduce(wm, filtered, rerr)
    IN IF res.err # nil
       THEN [object |-> res.object, calls |-> res.calls, ok |-> FALSE, err |-> res.err]
       ELSE [object |-> res.object, calls |-> res.calls, ok |-> Exists(res.object), err |-> nil]

----------------------------------------------------------------------------
(* SpecWM: two operations, each with a write model of its own, replay the
   aggregate and push commands to the one event stream. *)

MaxStore == 3
MaxPush == 2
MaxCalls == 2

Writers == {"w1", "w2"}

\* an operation before its first call
NewOperation ==
    [ wm        |-> NewWriteModel,   \* the model the operation owns
      wmPre     |-> NewWriteModel,   \* the model before the last call
      api       |-> "none",          \* the function called last
      calls     |-> <<>>,            \* what that call invoked, in order
      collab    |-> [events |-> <<>>, err |-> nil],  \* what the collaborator returned
      reduced   |-> nil,             \* what Reduce returned, had it been called
      ret       |-> nil,             \* the error the call returned
      ok        |-> FALSE,           \* the bool exists returned
      persisted |-> 0,               \* length of the stream when the call began
      after     |-> 0,               \* length of the stream when it returned
      n         |-> 0 ]              \* calls made so far

InitWM ==
    /\ store = <<>>
    /\ ops = [w \in Writers |-> NewOperation]
    /\ MatchIdle
    /\ ViewIdle
    /\ BuildIdle

CollaboratorErrors == {nil, Err("Cancelled")}

\* the commands an operation derives from its write model: one to MaxPush
\* commands on the aggregate, each exposing the sequence the model observed
WriterCommands(wm) ==
    SeqsUpTo({ Command(Aggregate("org", "org-1", "", ""), t, <<wm.ProcessedSequence>>)
               : t \in {OrgMemberAdded, OrgMemberRemoved} }, MaxPush) \ {<<>>}

ReduceErrors == {nil, Err("ReduceFailed")}

\* err := queryAndReduce(ctx, filter, wm)
CallQueryAndReduce(w, fail, rerr) ==
    LET filtered == Filter(store, fail)
        res == queryAndReduce(ops[w].wm, filtered, rerr)
    IN /\ ops[w].n < MaxCalls
       /\ ops' = [ops EXCEPT ![w] =
              [ wm |-> res.object, wmPre |-> ops[w].wm, api |-> "queryAndReduce",
                calls |-> res.calls, collab |-> filtered, reduced |-> rerr,
                ret |-> res.err, ok |-> FALSE, persisted |-> Len(store),
                after |-> Len(store), n |-> ops[w].n + 1 ]]
       /\ UNCHANGED <<store, builder, commands, result, matched, mpc,
                      view, viewPre, lastEvent, lastErr, builders, lastCall>>

\* ok, err := exists(ctx, filter, wm)
CallExists(w, fail, rerr) ==
    LET filtered == Filter(store, fail)
        res == exists(ops[w].wm, filtered, rerr)
    IN /\ ops[w].n < MaxCalls
       /\ ops' = [ops EXCEPT ![w] =
              [ wm |-> res.object, wmPre |-> ops[w].wm, api |-> "exists",
                calls |-> res.calls, collab |-> filtered, reduced |-> rerr,
                ret |-> res.err, ok |-> res.ok, persisted |-> Len(store),
                after |-> Len(store), n |-> ops[w].n + 1 ]]
       /\ UNCHANGED <<store, builder, commands, result, matched, mpc,
                      view, viewPre, lastEvent, lastErr, builders, lastCall>>

\* err := c.pushAppendAndReduce(ctx, wm, cmds...)
CallPushAppendAndReduce(w, cmds, fail, rerr) ==
    LET pushed == Push(store, cmds, fail)
        res == pushAppendAndReduce(ops[w].wm, cmds, pushed, rerr)
    IN /\ ops[w].n < MaxCalls
       /\ Len(store) + Len(cmds) <= MaxStore
       /\ store' = pushed.stream
       /\ ops' = [ops EXCEPT ![w] =
              [ wm |-> res.object, wmPre |-> ops[w].wm, api |-> "pushAppendAndReduce",
                calls |-> res.calls,
                collab |-> [events |-> pushed.events, err |-> pushed.err],
                reduced |-> rerr, ret |-> res.err, ok |-> FALSE,
                persisted |-> Len(store), after |-> Len(pushed.stream),
                n |-> ops[w].n + 1 ]]
       /\ UNCHANGED <<builder, commands, result, matched, mpc,
                      view, viewPre, lastEvent, lastErr, builders, lastCall>>

NextWM ==
    \E w \in Writers, fail \in CollaboratorErrors, rerr \in ReduceErrors :
        \/ CallQueryAndReduce(w, fail, rerr)
        \/ CallExists(w, fail, rerr)
        \/ \E cmds \in WriterCommands(ops[w].wm) :
               CallPushAppendAndReduce(w, cmds, fail, rerr)

SpecWM == InitWM /\ [][NextWM]_vars

\* the push of operation w was issued after the stream had advanced past the
\* sequence its model observed
StalePush(w) ==
    /\ ops[w].api = "pushAppendAndReduce"
    /\ ops[w].persisted > ops[w].wmPre.ProcessedSequence

\* the push of operation w appended at least one event
Wrote(w) ==
    /\ ops[w].api = "pushAppendAndReduce"
    /\ ops[w].collab.err = nil
    /\ ops[w].collab.events # <<>>

\* the write model as it is after `events` were appended to `object` and reduced
Folded(object, events) ==
    [ Events |-> <<>>,
      ProcessedSequence |-> events[Len(events)].Sequence,
      State |-> FoldEvents(object.State, object.Events \o events) ]

\* C3: when the push succeeds, pushAppendAndReduce makes one Push call, then
\* one AppendEvents call with exactly the events the push returned, then one
\* Reduce call, and returns what Reduce returned; no filter call is made and
\* the object reflects the state after the write.
C3_PushThenAppendThenReduce ==
    \A w \in Writers :
        (ops[w].api = "pushAppendAndReduce" /\ ops[w].collab.err = nil) =>
            /\ Len(ops[w].calls) = 3
            /\ ops[w].calls[1].fn = "Push"
            /\ ops[w].calls[2] = Call("AppendEvents", ops[w].collab.events)
            /\ ops[w].calls[3] = Call("Reduce", <<>>)
            /\ ops[w].ret = ops[w].reduced
            /\ Len(ops[w].collab.events) = Len(ops[w].calls[1].arg)
            /\ ops[w].wm = Folded(ops[w].wmPre, ops[w].collab.events)
            /\ ops[w].wm.ProcessedSequence = ops[w].after

\* a push of two commands onto a stream the model had replayed, whose
\* Reduce returned an error
C3_Witness ==
    \E w \in Writers :
        /\ ops[w].api = "pushAppendAndReduce"
        /\ ops[w].collab.err = nil
        /\ Len(ops[w].collab.events) = 2
        /\ ops[w].wmPre.ProcessedSequence >= 1
        /\ ops[w].wmPre.State # ops[w].wm.State
        /\ ops[w].ret = Err("ReduceFailed")

\* C4: queryAndReduce with a successful filter call: with zero events the
\* model is untouched, neither AppendEvents nor Reduce is called and no error
\* is returned; with one or more events they are appended in the returned
\* order, Reduce is called once afterwards and the model's sequence is the
\* sequence of the last returned event.
C4_ReplayFoldsOrLeavesUntouched ==
    \A w \in Writers :
        (ops[w].api = "queryAndReduce" /\ ops[w].collab.err = nil) =>
            /\ ops[w].collab.events = <<>> =>
                   /\ ops[w].wm = ops[w].wmPre
                   /\ ops[w].calls = <<Call("filter", <<>>)>>
                   /\ ops[w].ret = nil
            /\ ops[w].collab.events # <<>> =>
                   /\ ops[w].calls = << Call("filter", <<>>),
                                        Call("AppendEvents", ops[w].collab.events),
                                        Call("Reduce", <<>>) >>
                   /\ ops[w].ret = ops[w].reduced
                   /\ ops[w].wm.ProcessedSequence =
                          ops[w].collab.events[Len(ops[w].collab.events)].Sequence

\* an operation with a fresh model replayed the two events another
\* operation had written
C4_Witness ==
    \E a, b \in Writers :
        /\ a # b
        /\ Wrote(a)
        /\ ops[b].api = "queryAndReduce" /\ ops[b].collab.err = nil
        /\ Len(ops[b].collab.events) = 2
        /\ ops[b].wmPre = NewWriteModel
        /\ ops[b].wm.ProcessedSequence = 2
        /\ ops[b].wm.State # ops[b].wmPre.State

\* C5: when the filter or push collaborator returns an error, queryAndReduce,
\* exists and pushAppendAndReduce have invoked it once, return that very
\* error (exists also false), and call neither AppendEvents nor Reduce: the
\* model is unchanged.
C5_CollaboratorErrorPropagates ==
    \A w \in Writers :
        (ops[w].api # "none" /\ ops[w].collab.err # nil) =>
            /\ Len(ops[w].calls) = 1
            /\ ops[w].calls[1].fn = (IF ops[w].api = "pushAppendAndReduce" THEN "Push" ELSE "filter")
            /\ ops[w].ret = ops[w].collab.err
            /\ ops[w].ok = FALSE
            /\ ops[w].wm = ops[w].wmPre

\* exists failed on a stream that held events the model had not seen, and
\* a push of the other operation failed as well
C5_Witness ==
    \E a, b \in Writers :
        /\ ops[a].api = "exists"
        /\ ops[a].collab.err = Err("Cancelled")
        /\ ops[a].persisted > ops[a].wmPre.ProcessedSequence
        /\ ops[a].ret = Err("Cancelled")
        /\ ops[b].api = "pushAppendAndReduce"
        /\ ops[b].collab.err # nil
        /\ ops[b].ret = ops[b].collab.err

CalledExists(w) == ops[w].api = "exists"

\* the error the replay of operation w ended with: the filter's, or else what
\* Reduce returned when events were folded, or none
ReplayError(w) ==
    IF ops[w].collab.err # nil THEN ops[w].collab.err
    ELSE IF ops[w].collab.events = <<>> THEN nil
    ELSE ops[w].reduced

\* C11: exists replays the model and, when the replay succeeds, returns the
\* model's Exists() as it is after the replay; when the replay fails it
\* returns false and the replay's error; with no persisted events it returns
\* false and no error; after one 'added' event of the aggregate was returned
\* by the filter and folded into a fresh model it returns true.
C11_ExistenceGate ==
    \A w \in Writers :
        CalledExists(w) =>
            /\ ops[w].ret = ReplayError(w)
            /\ ops[w].ret = nil => ops[w].ok = Exists(ops[w].wm)
            /\ ops[w].ret # nil => ops[w].ok = FALSE
            /\ (ops[w].persisted = 0 /\ ops[w].collab.err = nil) =>
                   (ops[w].ok = FALSE /\ ops[w].ret = nil)
            /\ ( /\ ops[w].wmPre = NewWriteModel
                 /\ ops[w].ret = nil
                 /\ Len(ops[w].collab.events) = 1
                 /\ ops[w].collab.events[1].Type = OrgMemberAdded
                 /\ ops[w].collab.events[1].AggregateID = "org-1" ) => ops[w].ok = TRUE

\* exists answered true after one 'added' event was folded into a fresh model,
\* and another operation got false with the replay's error
C11_Witness ==
    \E a, b \in Writers :
        /\ CalledExists(a) /\ ops[a].wmPre = NewWriteModel
        /\ Len(ops[a].collab.events) = 1
        /\ ops[a].collab.events[1].Type = OrgMemberAdded
        /\ ops[a].ret = nil /\ ops[a].ok = TRUE
        /\ CalledExists(b) /\ ops[b].ret # nil /\ ops[b].ok = FALSE

\* the last call of operation w applied the event sequence evs to a fresh
\* write model, through AppendAndReduce or queryAndReduce, and succeeded
AppliedToFresh(w, evs) ==
    /\ ops[w].api \in {"pushAppendAndReduce", "queryAndReduce", "exists"}
    /\ ops[w].wmPre = NewWriteModel
    /\ ops[w].collab.err = nil
    /\ ops[w].ret = nil
    /\ evs # <<>>
    /\ ops[w].collab.events = evs

----------------------------------------------------------------------------
(* SpecBuilder: the fluent setters of SearchQueryBuilder and SearchQuery on
   two builders.  A time.Time is a number of ticks after the zero time
   (January 1, year 1); TicksPerSecond ticks make a second and the Unix epoch
   is tick UnixEpoch.  A *SearchQueryBuilder is an address, a *SearchQuery is
   the address of its builder and its place in the list. *)

TicksPerSecond == 2
UnixEpoch == 2
MaxTime == 4
MaxBuilderCalls == 3

Addresses == {"b1", "b2"}

\* time.Time.IsZero
IsZero(t) == t = ZeroTime

\* time.Time.Unix: whole seconds since the Unix epoch
Unix(t) == (t - UnixEpoch) \div TicksPerSecond

\* &SearchQuery{builder: builder}
LinkedSearchQuery(a) == [builder |-> a] @@ NewSearchQuery

QueryRef(a, k) == [builder |-> a, index |-> k]

\* SearchQueryBuilder.InstanceID
InstanceID(b, instanceID) == [b EXCEPT !.instanceID = PtrTo(instanceID)]

\* SearchQueryBuilder.ensureInstanceID; ctxInstance is
\* authz.GetInstance(ctx).InstanceID()
ensureInstanceID(b, ctxInstance) ==
    IF b.instanceID = NilPtr /\ ctxInstance # "" THEN InstanceID(b, ctxInstance) ELSE b

CreationDateAfter(b, creationDate) ==
    IF IsZero(creationDate) \/ Unix(creationDate) = 0 THEN b
    ELSE [b EXCEPT !.creationDateAfter = creationDate]

CreationDateBefore(b, creationDate) ==
    IF IsZero(creationDate) \/ Unix(creationDate) = 0 THEN b
    ELSE [b EXCEPT !.creationDateBefore = creationDate]

\* SearchQueryBuilder.AddQuery on the builder at address a.  Faulty variant
\* first: the new branch is put in front of the others.
AddQuery_Prepend(heap, a) ==
    [heap EXCEPT ![a].queries = <<LinkedSearchQuery(a)>> \o @]

AddQuery(heap, a) ==
    [heap EXCEPT ![a].queries = Append(@, LinkedSearchQuery(a))]

\* SearchQuery.Or
Or(heap, query) == AddQuery(heap, query.builder)

\* SearchQuery.AggregateTypes
AggregateTypes(query, types) == [query EXCEPT !.aggregateTypes = types]

InitBuilder ==
    /\ builders = [a \in Addresses |-> NewSearchQueryBuilder(ColumnsEvent)]
    /\ lastCall = BuilderCall("none", "", <<>>, <<>>, builders, [a \in Addresses |-> 0], 0)
    /\ MatchIdle
    /\ WMIdle
    /\ ViewIdle

InstanceIDs == {"", "tenant-x", "tenant-y"}

\* the bookkeeping of a call on the builder at address a
Called(fn, a, arg, ret) ==
    /\ lastCall.n < MaxBuilderCalls
    /\ lastCall' = BuilderCall(fn, a, arg, ret, builders,
                               IF fn \in {"AddQuery", "Or"}
                               THEN [lastCall.added EXCEPT ![a] = @ + 1]
                               ELSE lastCall.added,
                               lastCall.n + 1)
    /\ UNCHANGED <<builder, commands, result, matched, mpc, store, ops,
                   view, viewPre, lastEvent, lastErr>>

\* builder.InstanceID(id)
CallInstanceID(a, id) ==
    /\ builders' = [builders EXCEPT ![a] = InstanceID(@, id)]
    /\ Called("InstanceID", a, id, a)

\* builder.ensureInstanceID(ctx)
CallEnsureInstanceID(a, ctxInstance) ==
    /\ builders' = [builders EXCEPT ![a] = ensureInstanceID(@, ctxInstance)]
    /\ Called("ensureInstanceID", a, ctxInstance, <<>>)

\* builder.CreationDateAfter(t)
CallCreationDateAfter(a, t) ==
    /\ builders' = [builders EXCEPT ![a] = CreationDateAfter(@, t)]
    /\ Called("CreationDateAfter", a, t, a)

\* builder.CreationDateBefore(t)
CallCreationDateBefore(a, t) ==
    /\ builders' = [builders EXCEPT ![a] = CreationDateBefore(@, t)]
    /\ Called("CreationDateBefore", a, t, a)

\* query := builder.AddQuery()
CallAddQuery(a) ==
    /\ builders' = AddQuery(builders, a)
    /\ Called("AddQuery", a, <<>>, QueryRef(a, Len(builders'[a].queries)))

\* query := builder.queries[k].Or()
CallOr(a, k) ==
    /\ k \in DOMAIN builders[a].queries
    /\ builders' = Or(builders, builders[a].queries[k])
    /\ Called("Or", a, k, QueryRef(a, Len(builders'[a].queries)))

\* builder.queries[k].AggregateTypes(types...)
CallAggregateTypes(a, k, types) ==
    /\ k \in DOMAIN builders[a].queries
    /\ builders' = [builders EXCEPT ![a].queries[k] = AggregateTypes(@, types)]
    /\ Called("AggregateTypes", a, types, QueryRef(a, k))

NextBuilder ==
    \E a \in Addresses :
        \/ \E id \in InstanceIDs : CallInstanceID(a, id)
        \/ \E id \in InstanceIDs : CallEnsureInstanceID(a, id)
        \/ \E t \in 0..MaxTime : CallCreationDateAfter(a, t)
        \/ \E t \in 0..MaxTime : CallCreationDateBefore(a, t)
        \/ CallAddQuery(a)
        \/ \E k \in 1..MaxBuilderCalls : CallOr(a, k)
        \/ \E k \in 1..MaxBuilderCalls : CallAggregateTypes(a, k, <<"T1">>)

SpecBuilder == InitBuilder /\ [][NextBuilder]_vars

\* the builder the last call was made on, before and after the call
Before == lastCall.pre[lastCall.on]

After == builders[lastCall.on]

\* the last call left every builder but the one it was made on as it was
OthersUntouched ==
    \A a \in Addresses \ {lastCall.on} : builders[a] = lastCall.pre[a]

\* the zero-valued timestamp, and the one of the Unix epoch
ZeroValued(t) == t = ZeroTime

EpochZero(t) == t = UnixEpoch

\* C16: CreationDateAfter and CreationDateBefore called with a zero-valued or
\* epoch-zero timestamp leave the bound and every other field of the builder
\* as they were; called with any other timestamp they set that bound, and
\* nothing else, to the given value.
C16_ZeroDateGuard ==
    /\ lastCall.fn = "CreationDateAfter" =>
           /\ OthersUntouched
           /\ After = IF ZeroValued(lastCall.arg) \/ EpochZero(lastCall.arg) THEN Before
                      ELSE [Before EXCEPT !.creationDateAfter = lastCall.arg]
    /\ lastCall.fn = "CreationDateBefore" =>
           /\ OthersUntouched
           /\ After = IF ZeroValued(lastCall.arg) \/ EpochZero(lastCall.arg) THEN Before
                      ELSE [Before EXCEPT !.creationDateBefore = lastCall.arg]

\* C17: InstanceID overwrites the prior value; ensureInstanceID leaves an
\* instance ID that was set (the empty string included) as it is, sets an
\* unset one to the instance of the context, and the instance ID is set
\* after it.
C17_InstanceIDResolution ==
    /\ lastCall.fn = "InstanceID" =>
           (OthersUntouched /\ After = [Before EXCEPT !.instanceID = PtrTo(lastCall.arg)])
    /\ lastCall.fn = "ensureInstanceID" =>
           /\ OthersUntouched
           /\ Before.instanceID # NilPtr => After = Before
           /\ Before.instanceID = NilPtr =>
                  After = [Before EXCEPT !.instanceID = PtrTo(lastCall.arg)]
           /\ After.instanceID # NilPtr

\* C18: the sub-query list of a builder has one entry per AddQuery/Or call
\* made on it, every entry is linked to that builder, and a call of AddQuery or
\* Or appends one branch with all filters empty to the list of that builder,
\* returns it and leaves the branches that were there, the other fields and
\* the other builders as they were.
C18_AddQueryAppendsBranch ==
    /\ \A a \in Addresses :
           /\ Len(builders[a].queries) = lastCall.added[a]
           /\ \A k \in DOMAIN builders[a].queries : builders[a].queries[k].builder = a
    /\ lastCall.fn \in {"AddQuery", "Or"} =>
           /\ OthersUntouched
           /\ After = [Before EXCEPT !.queries = Append(@, LinkedSearchQuery(lastCall.on))]
           /\ lastCall.ret = QueryRef(lastCall.on, Len(After.queries))
           /\ After.queries[Len(After.queries)] = [builder |-> lastCall.on] @@ NewSearchQuery

\* Or on a branch that carries a filter has added a second branch to its builder
C18_Witness ==
    /\ lastCall.fn = "Or"
    /\ Len(After.queries) = 2
    /\ After.queries[1].aggregateTypes # <<>>
    /\ After.queries[2].aggregateTypes = <<>>

----------------------------------------------------------------------------
(* SpecColumns: Columns.Validate on the column kind of a builder, for every
   value of the int8 type Columns. *)

MinInt8 == -128
MaxInt8 == 127

\* caos_errs.ThrowPreconditionFailed(parent, id, message)
ThrowPreconditionFailed(parent, id) ==
    [kind |-> "PreconditionFailed", id |-> id, parent |-> parent.kind]

\* Columns.Validate.  Faulty variant first: the two ends of the range are let
\* through.
Validate_EndsAccepted(c) ==
    IF c < 0 \/ c > columnsCount THEN ThrowPreconditionFailed(nil, "REPOS-x8R35") ELSE nil

Validate(c) ==
    IF c <= 0 \/ c >= columnsCount THEN ThrowPreconditionFailed(nil, "REPOS-x8R35") ELSE nil

InitColumns ==
    /\ \E c \in MinInt8..MaxInt8 : builders = [a \in {"b1"} |-> NewSearchQueryBuilder(c)]
    /\ lastCall = BuilderCall("none", "", <<>>, <<>>, builders, [a \in {"b1"} |-> 0], 0)
    /\ MatchIdle
    /\ WMIdle
    /\ ViewIdle

\* err := builder.columns.Validate()
CallValidate(a) ==
    /\ lastCall.fn = "none"
    /\ Called("Validate", a, builders[a].columns, Validate(builders[a].columns))
    /\ UNCHANGED builders

NextColumns == \E a \in DOMAIN builders : CallValidate(a)

SpecColumns == InitColumns /\ [][NextColumns]_vars

\* C19: Validate returns a precondition-violation error if and only if the
\* column kind is not one of ColumnsEvent, ColumnsMaxSequence and
\* ColumnsInstanceIDs, that is for every int8 value <= 0 or >= 4, and no error
\* for each of the three.
C19_ValidateRange ==
    lastCall.fn = "Validate" =>
        /\ lastCall.ret.kind = "PreconditionFailed" <=>
               lastCall.arg \notin {ColumnsEvent, ColumnsMaxSequence, ColumnsInstanceIDs}
        /\ lastCall.ret.kind = "PreconditionFailed" <=> (lastCall.arg <= 0 \/ lastCall.arg >= 4)
        /\ lastCall.arg \in {ColumnsEvent, ColumnsMaxSequence, ColumnsInstanceIDs} =>
               lastCall.ret = nil

\* the first value past the enumerated range was refused
C19_Witness ==
    /\ lastCall.fn = "Validate"
    /\ lastCall.arg = columnsCount
    /\ lastCall.ret.kind = "PreconditionFailed"

----------------------------------------------------------------------------
(* SpecMatchesStorageOnly: Matches for builders that also carry the settings
   only the storage request reads: the event data of a sub-query, the editor
   user, the creation-date bounds, the position and the ordering. *)

\* SearchQuery.EventData
EventData(query, data) == [query EXCEPT !.eventData = data]

\* SearchQueryBuilder.EditorUser
EditorUser(b, id) == [b EXCEPT !.editorUser = id]

\* SearchQueryBuilder.PositionAfter
PositionAfter(b, position) == [b EXCEPT !.positionAfter = position]

\* SearchQueryBuilder.OrderDesc / OrderAsc
OrderDesc(b) == [b EXCEPT !.desc = TRUE]

OrderAsc(b) == [b EXCEPT !.desc = FALSE]

\* the event data maps of the sub-queries: none, or one key
EventDatas == {<<>>, [k \in {"userId"} |-> "u1"]}

StorageOnlyBuilders ==
    { CreationDateBefore(CreationDateAfter(PositionAfter(EditorUser(
          IF d THEN OrderDesc(base) ELSE OrderAsc(base), u), pos), ca), cb)
      : base \in { [NewSearchQueryBuilder(ColumnsEvent) EXCEPT
                      !.limit = l, !.offset = o,
                      !.queries = <<EventData(AggregateTypes(NewSearchQuery, <<"T1">>), data)>>]
                   : l \in 0..MaxLimit, o \in 0..MaxOffset, data \in EventDatas },
        d \in BOOLEAN, u \in {"", "u1"}, pos \in {0, 1},
        ca \in {ZeroTime, MaxTime}, cb \in {ZeroTime, MaxTime} }

InitMatchesStorageOnly ==
    /\ builder \in StorageOnlyBuilders
    /\ commands \in SeqsUpTo({ Command(Aggregate(t, "a1", "ro1", ""), "e1", <<>>)
                                : t \in {"T1", "T2"} }, MaxCommands)
    /\ result = <<>>
    /\ matched = <<>>
    /\ mpc = "ready"
    /\ WMIdle
    /\ ViewIdle
    /\ BuildIdle

NextMatchesStorageOnly == CallMatches

SpecMatchesStorageOnly == InitMatchesStorageOnly /\ [][NextMatchesStorageOnly]_vars

\* the builder with the storage-only settings taken back to their zero values
WithoutStorageOnly(b) ==
    [b EXCEPT !.desc = FALSE, !.editorUser = "", !.positionAfter = 0,
              !.creationDateAfter = ZeroTime, !.creationDateBefore = ZeroTime,
              !.queries = [k \in DOMAIN @ |-> EventData(@[k], <<>>)]]

\* C22: the event data of the sub-queries, the editor user, the creation-date
\* bounds, the position and the ordering have no influence on Matches: the
\* result is the one of the builder that differs only in having none of them
\* set, so two builders that differ only in these settings give the same
\* result on every list of commands.
C22_StorageOnlySettingsIgnored ==
    mpc = "done" => result = Matches(WithoutStorageOnly(builder), commands)

\* a builder with every storage-only setting set has returned some commands
\* of the list and left out others
C22_Witness ==
    /\ mpc = "done"
    /\ DOMAIN builder.queries[1].eventData # {}
    /\ builder.editorUser # ""
    /\ builder.desc
    /\ builder.positionAfter # 0
    /\ builder.creationDateAfter # ZeroTime
    /\ builder.creationDateBefore # ZeroTime
    /\ builder.offset = 0
    /\ result # <<>>
    /\ Len(result) < Len(commands)
    /\ WithoutStorageOnly(builder) # builder

====
